---- MODULE Spec2Model ----
(***************************************************************************)
(* RecorderApp (src/server/supplements/recorder/recorderApp.ts): the       *)
(* controller of the recorder window.  The model follows the host side:    *)
(* open() and _init() step by step, the page-close handler, close(), the   *)
(* six push operations, the 'dispatch' binding and the request             *)
(* interceptor.  Page, BrowserContext and the window are the engine the    *)
(* controller talks to; they are modelled at the interface the controller  *)
(* uses (an awaited call is issued, then settles in a later step).         *)
(***************************************************************************)
EXTENDS Integers, Sequences, FiniteSets, TLC

VARIABLES
    pc,             \* where open() stands: the call it awaits, or its result
    steps,          \* the engine calls open() and _init() have issued, in order
    failedAt,       \* the awaited call whose failure rejected open(), or "none"
    sessions,       \* sessions launched for this controller
    page,           \* this._page: "none", "open", "closed"
    ctx,            \* this._page.context(): "none", "open", "closing", "closed"
    interceptors,   \* request interceptors installed on the page
    closeListener,  \* the once('close') listener is registered and has not run
    closeEmitted,   \* 'close' events the controller has emitted
    handlerClose,   \* the context().close() the close listener issued
    closeCalls,     \* the explicit close() calls, in call order
    fronts,         \* the bringToFront() calls, in call order
    afterClose,     \* engine calls issued after 'close' was emitted, by issuer
    cliExit,        \* process.env.PWTEST_CLI_EXIT is set
    ui,             \* what the window displays, per window hook
    evals,          \* the evaluations issued on the main frame and not settled
    pushes,         \* the pushes that have settled, in order
    stdout,         \* what has been written to process.stdout
    listeners,      \* the listeners of the controller's 'event', in order
    since,          \* how many events had been emitted when each subscribed
    received,       \* the payloads each listener was called with, in order
    invoked,        \* the payloads the window passed to dispatch(), in order
    emitted,        \* the payloads of the 'event' emissions, in order
    route           \* the request the interceptor handles, and what it did with it

lifeVars == <<pc, steps, failedAt, sessions, page, ctx, interceptors, closeListener,
              closeEmitted, handlerClose, closeCalls, fronts>>
pushVars == <<cliExit, ui, evals, pushes, stdout>>
eventVars == <<listeners, since, received, invoked, emitted>>
restVars == <<pushVars, eventVars, route>>
vars == <<lifeVars, afterClose, restVars>>

\* Bounds of the model.
MaxCloseCalls == 2
MaxFronts == 1
MaxPushes == 2
MaxDispatch == 3

InitCalls == {"installAppIcon", "setInterceptor", "exposeBinding", "goto"}
Issuers == {"init", "handler", "closeCall", "bringToFront", "push"}

\* The six push operations, and the values the model pushes through each.
PushOps == {"setMode", "setFile", "setPaused", "setSources", "setSelector",
            "updateCallLogs"}

PushArgs(op) ==
    CASE op = "setMode" -> {"none", "recording", "inspecting"}
      [] op = "setFile" -> {"x", "y"}
      [] op = "setPaused" -> BOOLEAN
      [] op = "setSources" -> {<<>>, <<[text |-> "s1"]>>,
                               <<[text |-> "s2"], [text |-> "s1"]>>}
      [] op = "setSelector" -> {<<"sel", "true">>, <<"sel", "undefined">>}
      [] op = "updateCallLogs" -> {<<>>, <<"log">>}

\* The window function each push operation calls inside the page.
WindowHook(op) ==
    CASE op = "setMode" -> "playwrightSetMode"
      [] op = "setFile" -> "playwrightSetFile"
      [] op = "setPaused" -> "playwrightSetPaused"
      [] op = "setSources" -> "playwrightSetSources"
      [] op = "setSelector" -> "playwrightSetSelector"
      [] op = "updateCallLogs" -> "playwrightUpdateLogs"

Hooks == {WindowHook(op) : op \in PushOps}

\* Strings the interceptor takes apart are sequences of characters.
VirtualPrefix ==
    <<"h", "t", "t", "p", "s", ":", "/", "/", "p", "l", "a", "y", "w", "r", "i", "g",
      "h", "t", "/">>

\* The files of web/recorder the model's bundle holds.
IndexHtml ==
    <<"i", "n", "d", "e", "x", ".", "h", "t", "m", "l">>
AppBundleJs ==
    <<"a", "p", "p", ".", "b", "u", "n", "d", "l", "e", ".", "j", "s">>
IconPng ==
    <<"i", "c", "o", "n", ".", "p", "n", "g">>
FontWoff2 ==
    <<"f", "o", "n", "t", ".", "w", "o", "f", "f", "2">>
NotesTxt ==
    <<"n", "o", "t", "e", "s", ".", "t", "x", "t">>
LockedCss ==
    <<"l", "o", "c", "k", "e", "d", ".", "c", "s", "s">>

BundleFiles == {IndexHtml, AppBundleJs, IconPng, FontWoff2, NotesTxt, LockedCss}

\* A file of the bundle that cannot be read.
Unreadable == {LockedCss}

\* The bytes of each file.
FileBytes(file) ==
    CASE file = IndexHtml -> <<60, 33, 62>>
      [] file = AppBundleJs -> <<47, 47>>
      [] file = IconPng -> <<137, 80, 78, 71>>
      [] file = FontWoff2 -> <<0, 255, 1, 128, 64>>
      [] file = NotesTxt -> <<104>>
      [] OTHER -> <<>>

\* The addresses the page requests.
RequestUrls ==
    {VirtualPrefix \o f : f \in BundleFiles} \cup
    { VirtualPrefix,
      VirtualPrefix \o <<"a", "p", "p", ".", "b", "u", "n", "d", "l", "e">>,
      VirtualPrefix \o <<"m", "i", "s", "s", "i", "n", "g", ".", "j", "s">>,
      <<"h", "t", "t", "p", "s", ":", "/", "/", "p", "l", "a", "y", "w", "r", "i", "g",
        "h", "t">>,
      <<"h", "t", "t", "p", ":", "/", "/", "p", "l", "a", "y", "w", "r", "i", "g", "h",
        "t", "/", "i", "n", "d", "e", "x", ".", "h", "t", "m", "l">>,
      <<"h", "t", "t", "p", "s", ":", "/", "/", "c", "d", "n", "/", "h", "t", "t", "p",
        "s", ":", "/", "/", "p", "l", "a", "y", "w", "r", "i", "g", "h", "t", "/", "i",
        "n", "d", "e", "x", ".", "h", "t", "m", "l">> }

\* No request has been intercepted yet.
NoRoute == [url |-> <<>>, stage |-> "none", file |-> <<>>, fulfilled |-> <<>>,
            continued |-> 0, threw |-> FALSE]

\* The host's listeners, and the payloads the window dispatches (EventData).
Listeners == {"l1", "l2"}
Payloads == {[event |-> "clear", params |-> "none"],
             [event |-> "setMode", params |-> "recording"]}

\* What the engine passes to a binding's callback before the page's argument.
BindingSource == [event |-> "source", params |-> "mainFrame"]

Delimiter == "\n-------------8<-------------\n"

Init ==
    /\ pc = "idle"
    /\ steps = <<>>
    /\ failedAt = "none"
    /\ sessions = 0
    /\ page = "none"
    /\ ctx = "none"
    /\ interceptors = 0
    /\ closeListener = FALSE
    /\ closeEmitted = 0
    /\ handlerClose = "none"
    /\ closeCalls = <<>>
    /\ fronts = <<>>
    /\ afterClose = [i \in Issuers |-> 0]
    /\ cliExit \in BOOLEAN
    /\ ui = [h \in Hooks |-> <<>>]
    /\ evals = <<>>
    /\ pushes = <<>>
    /\ stdout = <<>>
    /\ listeners = <<>>
    /\ since = [l \in Listeners |-> 0]
    /\ received = [l \in Listeners |-> <<>>]
    /\ invoked = <<>>
    /\ emitted = <<>>
    /\ route = NoRoute

\* An engine call issued by `who`, counted when 'close' has already been emitted.
Issued(who, closes, count) ==
    IF closes >= 1 THEN [count EXCEPT ![who] = @ + 1] ELSE count

\* BrowserContext.close(): starts the teardown of an open session, joins a
\* teardown in progress, and has nothing to do on a closed one.
ContextClose(c) == IF c = "open" THEN "closing" ELSE c

----
\* open(), lines 87-122, and _init(), lines 55-85.

\* open() is called: lines 88-104 build the launch options and issue
\* launchPersistentContext.
OpenCall ==
    /\ UNCHANGED restVars
    /\ pc = "idle"
    /\ pc' = "launch"
    /\ steps' = Append(steps, "launch")
    /\ UNCHANGED <<failedAt, sessions, page, ctx, interceptors, closeListener,
                   closeEmitted, handlerClose, closeCalls, fronts, afterClose>>

\* An awaited call of open() rejects: nothing catches it, open() rejects.
OpenReject ==
    /\ pc' = "rejected"
    /\ failedAt' = pc
    /\ UNCHANGED <<steps, interceptors, closeListener>>

\* launchPersistentContext resolves with the session (line 104); open() goes on to
\* load the default context (lines 113-116).
LaunchDone ==
    /\ UNCHANGED restVars
    /\ pc = "launch"
    /\ pc' = "loadDefault"
    /\ steps' = Append(steps, "loadDefault")
    /\ sessions' = sessions + 1
    /\ page' = "open"
    /\ ctx' = "open"
    /\ UNCHANGED <<failedAt, interceptors, closeListener, closeEmitted,
                   handlerClose, closeCalls, fronts, afterClose>>

LaunchFail ==
    /\ UNCHANGED restVars
    /\ pc = "launch"
    /\ OpenReject
    /\ UNCHANGED <<sessions, page, ctx, closeEmitted, handlerClose, closeCalls, fronts,
                   afterClose>>

\* The default context is loaded: lines 118-120 take the page, construct the
\* controller and call _init(), whose first call is installAppIcon (line 56).
LoadDefaultDone ==
    /\ UNCHANGED restVars
    /\ pc = "loadDefault"
    /\ pc' = "installAppIcon"
    /\ steps' = Append(steps, "installAppIcon")
    /\ afterClose' = Issued("init", closeEmitted, afterClose)
    /\ UNCHANGED <<failedAt, sessions, page, ctx, interceptors, closeListener,
                   closeEmitted, handlerClose, closeCalls, fronts>>

\* LoadDefaultFail with the failure caught, so that open() goes on to _init().
LoadDefaultFailCaught ==
    /\ UNCHANGED restVars
    /\ pc = "loadDefault"
    /\ failedAt' = pc
    /\ pc' = "installAppIcon"
    /\ steps' = Append(steps, "installAppIcon")
    /\ UNCHANGED <<sessions, page, ctx, interceptors, closeListener, closeEmitted,
                   handlerClose, closeCalls, fronts, afterClose>>

LoadDefaultFail ==
    /\ UNCHANGED restVars
    /\ pc = "loadDefault"
    /\ OpenReject
    /\ UNCHANGED <<sessions, page, ctx, closeEmitted, handlerClose, closeCalls, fronts,
                   afterClose>>

\* AppIconDone with the navigation issued before the interceptor is installed.
AppIconDoneNavigatesFirst ==
    /\ UNCHANGED restVars
    /\ pc = "installAppIcon"
    /\ page = "open"
    /\ pc' = "setInterceptor"
    /\ steps' = steps \o <<"goto", "setInterceptor">>
    /\ afterClose' = Issued("init", closeEmitted, afterClose)
    /\ UNCHANGED <<failedAt, sessions, page, ctx, interceptors, closeListener,
                   closeEmitted, handlerClose, closeCalls, fronts>>

\* installAppIcon resolves; _setServerRequestInterceptor is issued (line 58).
AppIconDone ==
    /\ UNCHANGED restVars
    /\ pc = "installAppIcon"
    /\ page = "open"
    /\ pc' = "setInterceptor"
    /\ steps' = Append(steps, "setInterceptor")
    /\ afterClose' = Issued("init", closeEmitted, afterClose)
    /\ UNCHANGED <<failedAt, sessions, page, ctx, interceptors, closeListener,
                   closeEmitted, handlerClose, closeCalls, fronts>>

\* The interceptor is installed; exposeBinding is issued (line 76).
InterceptorDone ==
    /\ UNCHANGED restVars
    /\ pc = "setInterceptor"
    /\ page = "open"
    /\ pc' = "exposeBinding"
    /\ steps' = Append(steps, "exposeBinding")
    /\ interceptors' = interceptors + 1
    /\ afterClose' = Issued("init", closeEmitted, afterClose)
    /\ UNCHANGED <<failedAt, sessions, page, ctx, closeListener, closeEmitted,
                   handlerClose, closeCalls, fronts>>

\* BindingDone with the navigation not awaited: _init() returns at once.
BindingDoneNoAwait ==
    /\ UNCHANGED restVars
    /\ pc = "exposeBinding"
    /\ page = "open"
    /\ pc' = "returned"
    /\ steps' = steps \o <<"onceClose", "goto">>
    /\ closeListener' = TRUE
    /\ afterClose' = Issued("init", closeEmitted, afterClose)
    /\ UNCHANGED <<failedAt, sessions, page, ctx, interceptors, closeEmitted,
                   handlerClose, closeCalls, fronts>>

\* BindingDone with the close listener never registered.
BindingDoneNoListener ==
    /\ UNCHANGED restVars
    /\ pc = "exposeBinding"
    /\ page = "open"
    /\ pc' = "goto"
    /\ steps' = steps \o <<"goto">>
    /\ afterClose' = Issued("init", closeEmitted, afterClose)
    /\ UNCHANGED <<failedAt, sessions, page, ctx, interceptors, closeListener,
                   closeEmitted, handlerClose, closeCalls, fronts>>

\* The binding is installed; lines 78-84 run without an await between them: the
\* close listener is registered, then the navigation is issued.
BindingDone ==
    /\ UNCHANGED restVars
    /\ pc = "exposeBinding"
    /\ page = "open"
    /\ pc' = "goto"
    /\ steps' = steps \o <<"onceClose", "goto">>
    /\ closeListener' = TRUE
    /\ afterClose' = Issued("init", closeEmitted, afterClose)
    /\ UNCHANGED <<failedAt, sessions, page, ctx, interceptors, closeEmitted,
                   handlerClose, closeCalls, fronts>>

\* The navigation completes: _init() returns and open() returns the controller.
GotoDone ==
    /\ UNCHANGED restVars
    /\ pc = "goto"
    /\ page = "open"
    /\ pc' = "returned"
    /\ UNCHANGED <<steps, failedAt, sessions, page, ctx, interceptors, closeListener,
                   closeEmitted, handlerClose, closeCalls, fronts, afterClose>>
\* InitFail closing the launched session before open() rejects.
InitFailClosesSession ==
    /\ UNCHANGED restVars
    /\ pc \in InitCalls
    /\ pc' = "rejected"
    /\ failedAt' = pc
    /\ ctx' = ContextClose(ctx)
    /\ UNCHANGED <<steps, sessions, page, interceptors, closeListener,
                   closeEmitted, handlerClose, closeCalls, fronts, afterClose>>

\* A call of _init() rejects (the page has closed, or the engine fails): _init()
\* and open() reject; nothing on this path closes the session.
InitFail ==
    /\ UNCHANGED restVars
    /\ pc \in InitCalls
    /\ pc' = "rejected"
    /\ failedAt' = pc
    /\ UNCHANGED <<steps, sessions, page, ctx, interceptors, closeListener,
                   closeEmitted, handlerClose, closeCalls, fronts, afterClose>>

----
\* The page's 'close' signal and the close listener, lines 78-81.

\* CloseHandler closing the session twice (this.close() and context().close()).
CloseHandlerClosesTwice ==
    /\ closeListener' = FALSE
    /\ closeEmitted' = closeEmitted + 1
    /\ handlerClose' = "pending"
    /\ ctx' = ContextClose(ctx)
    /\ afterClose' = [afterClose EXCEPT !["handler"] = @ + 2]

\* CloseHandler without the session close: the listener only emits 'close'.
CloseHandlerEmitsOnly ==
    /\ closeListener' = FALSE
    /\ closeEmitted' = closeEmitted + 1
    /\ UNCHANGED <<handlerClose, ctx, afterClose>>

\* The listener's body: emit('close'), then context().close() with its rejection
\* caught.  once() has removed the listener before it runs.
CloseHandler ==
    /\ closeListener' = FALSE
    /\ closeEmitted' = closeEmitted + 1
    /\ handlerClose' = "pending"
    /\ ctx' = ContextClose(ctx)
    /\ afterClose' = Issued("handler", closeEmitted + 1, afterClose)

\* The page closes and emits 'close' to its listeners, synchronously.
PageDidClose ==
    /\ page' = "closed"
    /\ IF closeListener
         THEN CloseHandler
         ELSE UNCHANGED <<closeListener, closeEmitted, handlerClose, ctx, afterClose>>

\* The user closes the window (or the browser goes away).
WindowClose ==
    /\ UNCHANGED restVars
    /\ page = "open"
    /\ PageDidClose
    /\ UNCHANGED <<pc, steps, failedAt, sessions, interceptors, closeCalls, fronts>>

----
\* close(), lines 51-53, and the session teardown it awaits.

\* The lifecycle state of section 4.5 of the specification, read off the
\* controller: closed once 'close' has been emitted, ready once open() has
\* returned.  An open() that rejected never became ready: it stays initializing.
Lifecycle ==
    CASE pc = "idle" -> "uninitialized"
      [] closeEmitted >= 1 -> "closed"
      [] pc = "returned" -> "ready"
      [] OTHER -> "initializing"

\* Close emitting 'close' itself before it closes the session.
CloseEmitting ==
    /\ UNCHANGED restVars
    /\ pc = "returned"
    /\ Len(closeCalls) < MaxCloseCalls
    /\ closeCalls' = Append(closeCalls,
           [at |-> Lifecycle, ctx |-> ctx,
            status |-> IF ctx = "closed" THEN "resolved" ELSE "pending"])
    /\ closeEmitted' = closeEmitted + 1
    /\ ctx' = ContextClose(ctx)
    /\ afterClose' = Issued("closeCall", closeEmitted, afterClose)
    /\ UNCHANGED <<pc, steps, failedAt, sessions, page, interceptors, closeListener,
                   handlerClose, fronts>>

\* close() is called on the controller open() returned: it issues
\* context().close() and awaits it.  On a session already torn down the call
\* resolves at once.
Close ==
    /\ UNCHANGED restVars
    /\ pc = "returned"
    /\ Len(closeCalls) < MaxCloseCalls
    /\ closeCalls' = Append(closeCalls,
           [at |-> Lifecycle, ctx |-> ctx,
            status |-> IF ctx = "closed" THEN "resolved" ELSE "pending"])
    /\ ctx' = ContextClose(ctx)
    /\ afterClose' = Issued("closeCall", closeEmitted, afterClose)
    /\ UNCHANGED <<pc, steps, failedAt, sessions, page, interceptors, closeListener,
                   closeEmitted, handlerClose, fronts>>

\* close() awaits context().close() with no catch: the call settles as the
\* teardown does.
CloseOutcome(settled) == settled

\* The close listener's .catch(e => console.error(e)), line 80: a rejected
\* teardown is caught.
HandlerCloseOutcome(settled) ==
    IF settled = "rejected" THEN "caught" ELSE settled

Settle(calls, outcome) ==
    [i \in DOMAIN calls |->
        IF calls[i].status = "pending" THEN [calls[i] EXCEPT !.status = outcome]
        ELSE calls[i]]

\* The teardown closes the session's page.
SessionClosePages ==
    /\ UNCHANGED restVars
    /\ ctx = "closing"
    /\ page = "open"
    /\ PageDidClose
    /\ UNCHANGED <<pc, steps, failedAt, sessions, interceptors, closeCalls, fronts>>

\* The teardown completes: every close that waits for it resolves.
SessionCloseDone ==
    /\ UNCHANGED restVars
    /\ ctx = "closing"
    /\ page = "closed"
    /\ ctx' = "closed"
    /\ closeCalls' = Settle(closeCalls, CloseOutcome("resolved"))
    /\ handlerClose' = IF handlerClose = "pending"
                         THEN HandlerCloseOutcome("resolved") ELSE handlerClose
    /\ UNCHANGED <<pc, steps, failedAt, sessions, page, interceptors, closeListener,
                   closeEmitted, fronts, afterClose>>

\* The teardown fails: every close that waits for it rejects, and the session is
\* left open (a later close starts the teardown again).  close() lets the
\* rejection through; the close listener catches it (line 80).
SessionCloseFail ==
    /\ UNCHANGED restVars
    /\ ctx = "closing"
    /\ ctx' = "open"
    /\ closeCalls' = Settle(closeCalls, CloseOutcome("rejected"))
    /\ handlerClose' = IF handlerClose = "pending"
                         THEN HandlerCloseOutcome("rejected") ELSE handlerClose
    /\ UNCHANGED <<pc, steps, failedAt, sessions, page, interceptors, closeListener,
                   closeEmitted, fronts, afterClose>>

----
\* bringToFront(), lines 169-171.

\* FrontOutcome with the catch of the push operations.
FrontOutcomeBestEffort(settled) == "resolved"

\* bringToFront() awaits page.bringToFront() with no catch: the call settles as
\* the page's operation does.
FrontOutcome(settled) == settled

\* bringToFront() is called on the controller open() returned: it issues
\* page.bringToFront() and awaits it.
BringToFront ==
    /\ UNCHANGED restVars
    /\ pc = "returned"
    /\ Len(fronts) < MaxFronts
    /\ fronts' = Append(fronts, "pending")
    /\ afterClose' = Issued("bringToFront", closeEmitted, afterClose)
    /\ UNCHANGED <<pc, steps, failedAt, sessions, page, ctx, interceptors,
                   closeListener, closeEmitted, handlerClose, closeCalls>>

\* page.bringToFront() settles: it can resolve only while the page is open, and
\* nothing in bringToFront() catches its rejection.
FrontSettle(i, ok) ==
    /\ UNCHANGED restVars
    /\ fronts[i] = "pending"
    /\ ok => page = "open"
    /\ fronts' = [fronts EXCEPT
                     ![i] = FrontOutcome(IF ok THEN "resolved" ELSE "rejected")]
    /\ UNCHANGED <<pc, steps, failedAt, sessions, page, ctx, interceptors,
                   closeListener, closeEmitted, handlerClose, closeCalls, afterClose>>

----
\* The push operations, lines 124-167.

\* The evaluation a push issues: id numbers the pushes in the order of their
\* calls, inflight counts the evaluations not yet settled when it is issued.
Evaluation(op, arg) ==
    [op |-> op, arg |-> arg, id |-> Len(evals) + Len(pushes) + 1,
     inflight |-> Len(evals)]

\* Push issuing its evaluation after an await of its own: an evaluation issued
\* by a later call can be ahead of it.
PushDeferred(op, arg) ==
    /\ pc = "returned"
    /\ Len(evals) + Len(pushes) < MaxPushes
    /\ evals' = <<Evaluation(op, arg)>> \o evals
    /\ afterClose' = Issued("push", closeEmitted, afterClose)
    /\ UNCHANGED <<lifeVars, cliExit, ui, pushes, stdout, eventVars, route>>

\* A push is called on the controller open() returned: it issues the evaluation
\* of its window hook on the main frame, in the call itself, and awaits it.
Push(op, arg) ==
    /\ pc = "returned"
    /\ Len(evals) + Len(pushes) < MaxPushes
    /\ evals' = Append(evals, Evaluation(op, arg))
    /\ afterClose' = Issued("push", closeEmitted, afterClose)
    /\ UNCHANGED <<lifeVars, cliExit, ui, pushes, stdout, eventVars, route>>

\* PushOutcome without the catch: the evaluation's rejection reaches the caller.
PushOutcomeNoCatch(evaluation) ==
    IF evaluation = "rejected" THEN "rejected" ELSE "resolved"

\* .catch(() => {}) on the evaluation's promise: a rejection is swallowed.
PushOutcome(evaluation) == "resolved"

\* The testing harness of setSources, lines 147-154, run after the await.
HarnessOutput(op, arg) ==
    IF op = "setSources" /\ cliExit /\ Len(arg) > 0
      THEN <<Delimiter, arg[1].text, Delimiter>>
      ELSE <<>>

\* PushSettled issuing the evaluation again when it was rejected.
PushSettledRetries(evaluation) ==
    LET p == Head(evals)
        outcome == PushOutcome(evaluation)
    IN /\ evals' = IF evaluation = "rejected"
                     THEN Append(Tail(evals), p) ELSE Tail(evals)
       /\ pushes' = Append(pushes,
              [op |-> p.op, arg |-> p.arg, id |-> p.id, inflight |-> p.inflight,
               evaluation |-> evaluation, outcome |-> outcome, page |-> page])
       /\ stdout' = IF outcome = "resolved"
                      THEN stdout \o HarnessOutput(p.op, p.arg) ELSE stdout

\* PushSettled running the harness only when the evaluation succeeded.
PushSettledHarnessOnSuccess(evaluation) ==
    LET p == Head(evals)
        outcome == PushOutcome(evaluation)
    IN /\ evals' = Tail(evals)
       /\ pushes' = Append(pushes,
              [op |-> p.op, arg |-> p.arg, id |-> p.id, inflight |-> p.inflight,
               evaluation |-> evaluation, outcome |-> outcome, page |-> page])
       /\ stdout' = IF evaluation = "fulfilled"
                      THEN stdout \o HarnessOutput(p.op, p.arg) ELSE stdout

\* The awaited evaluation has settled as `evaluation`; the rest of the push runs.
PushSettled(evaluation) ==
    LET p == Head(evals)
        outcome == PushOutcome(evaluation)
    IN /\ evals' = Tail(evals)
       /\ pushes' = Append(pushes,
              [op |-> p.op, arg |-> p.arg, id |-> p.id, inflight |-> p.inflight,
               evaluation |-> evaluation, outcome |-> outcome, page |-> page])
       /\ stdout' = IF outcome = "resolved"
                      THEN stdout \o HarnessOutput(p.op, p.arg) ELSE stdout

\* The window runs the oldest evaluation: the hook takes the value.
EvalRun ==
    /\ evals # <<>>
    /\ page = "open"
    /\ ui' = [ui EXCEPT ![WindowHook(Head(evals).op)] = <<Head(evals).arg>>]
    /\ PushSettled("fulfilled")
    /\ UNCHANGED <<lifeVars, afterClose, cliExit, eventVars, route>>

\* The oldest evaluation rejects: the page has closed, or the evaluation fails.
EvalFail ==
    /\ evals # <<>>
    /\ PushSettled("rejected")
    /\ UNCHANGED <<lifeVars, afterClose, cliExit, ui, eventVars, route>>

----
\* The 'dispatch' binding, line 76, and the listeners of 'event'.

Range(q) == {q[i] : i \in DOMAIN q}

\* The host subscribes a listener to 'event' on the controller open() returned.
Subscribe(l) ==
    /\ pc = "returned"
    /\ l \notin Range(listeners)
    /\ listeners' = Append(listeners, l)
    /\ since' = [since EXCEPT ![l] = Len(emitted)]
    /\ UNCHANGED <<lifeVars, afterClose, pushVars, received, invoked, emitted, route>>

\* EventEmitter.emit: every listener is called with the arguments, in the order
\* of subscription, before emit returns.
Emit(data) ==
    /\ emitted' = Append(emitted, data)
    /\ received' = [l \in Listeners |->
           IF l \in Range(listeners) THEN Append(received[l], data) ELSE received[l]]

\* EventPayload with the callback's first parameter passed on instead of the data.
EventPayloadSource(source, data) == source

\* The binding's callback, (_, data) => this.emit('event', data): what it emits.
EventPayload(source, data) == data

\* The window calls dispatch(data): the engine calls the binding's callback.  The
\* binding is installed once exposeBinding has resolved, which is when _init()
\* reached the registration of the close listener.
Dispatch(data) ==
    /\ "onceClose" \in Range(steps)
    /\ page = "open"
    /\ Len(invoked) < MaxDispatch
    /\ invoked' = Append(invoked, data)
    /\ Emit(EventPayload(BindingSource, data))
    /\ UNCHANGED <<lifeVars, afterClose, pushVars, listeners, since, route>>

----
\* The request interceptor, lines 58-74.

\* String.startsWith, String.substring(start) and the character's last index.
StartsWith(str, prefix) ==
    /\ Len(str) >= Len(prefix)
    /\ SubSeq(str, 1, Len(prefix)) = prefix

Substring(str, start) == SubSeq(str, start + 1, Len(str))

LastIndexOf(str, ch) ==
    IF \E i \in DOMAIN str : str[i] = ch
      THEN CHOOSE i \in DOMAIN str : str[i] = ch /\ \A j \in DOMAIN str : str[j] = ch => j <= i
      ELSE 0

\* ExtName cut at the first dot of the name instead of the last one.
ExtNameFirstDot(file) ==
    LET base == Substring(file, LastIndexOf(file, "/"))
        dots == {i \in DOMAIN base : base[i] = "."}
    IN IF dots = {} THEN <<>>
       ELSE LET dot == CHOOSE i \in dots : \A j \in dots : i <= j
            IN IF dot <= 1 THEN <<>> ELSE Substring(base, dot - 1)

\* path.extname: from the last dot of the path's last portion to its end; empty
\* when that portion has no dot, or none but its first character.
ExtName(file) ==
    LET base == Substring(file, LastIndexOf(file, "/"))
        dot == LastIndexOf(base, ".")
    IN IF dot <= 1 THEN <<>> ELSE Substring(base, dot - 1)

\* extensionToMime, lines 174-185, as pairs of extension and type.
extensionToMime ==
    { <<<<".", "c", "s", "s">>, "text/css">>,
      <<<<".", "h", "t", "m", "l">>, "text/html">>,
      <<<<".", "j", "p", "e", "g">>, "image/jpeg">>,
      <<<<".", "j", "s">>, "application/javascript">>,
      <<<<".", "p", "n", "g">>, "image/png">>,
      <<<<".", "t", "t", "f">>, "font/ttf">>,
      <<<<".", "s", "v", "g">>, "image/svg+xml">>,
      <<<<".", "w", "e", "b", "p">>, "image/webp">>,
      <<<<".", "w", "o", "f", "f">>, "font/woff">>,
      <<<<".", "w", "o", "f", "f", "2">>, "font/woff2">> }
\* extensionToMime[ext]: undefined for an extension the table does not hold.
MimeOf(ext) ==
    IF \E e \in extensionToMime : e[1] = ext
      THEN (CHOOSE e \in extensionToMime : e[1] = ext)[2]
      ELSE "undefined"

\* require.resolve('../../../web/recorder/' + uri): the file itself, or the file
\* with one of the extensions require adds; no file: it throws.
Resolve(uri) ==
    LET candidates == <<uri, uri \o <<".", "j", "s">>, uri \o <<".", "j", "s", "o", "n">>,
                        uri \o <<".", "n", "o", "d", "e">> >>
        found == {i \in DOMAIN candidates : candidates[i] \in BundleFiles}
    IN IF found = {} THEN <<>>
       ELSE candidates[CHOOSE i \in found : \A j \in found : i <= j]

\* Buffer.toString('base64'): three bytes make four digits of six bits; 64
\* stands for the padding character.
RECURSIVE Base64(_)
Base64(bytes) ==
    IF Len(bytes) = 0 THEN <<>>
    ELSE IF Len(bytes) = 1 THEN
        <<bytes[1] \div 4, (bytes[1] % 4) * 16, 64, 64>>
    ELSE IF Len(bytes) = 2 THEN
        <<bytes[1] \div 4, (bytes[1] % 4) * 16 + bytes[2] \div 16,
          (bytes[2] % 16) * 4, 64>>
    ELSE
        <<bytes[1] \div 4, (bytes[1] % 4) * 16 + bytes[2] \div 16,
          (bytes[2] % 16) * 4 + bytes[3] \div 64, bytes[3] % 64>>
            \o Base64(SubSeq(bytes, 4, Len(bytes)))

\* The page requests an address and the engine hands the request to the
\* interceptor.
Intercept(url) ==
    /\ interceptors >= 1
    /\ page = "open"
    /\ route.stage \in {"none", "done"}
    /\ route' = [NoRoute EXCEPT !.url = url, !.stage = "intercepted"]
    /\ UNCHANGED <<lifeVars, afterClose, pushVars, eventVars>>

\* InterceptorStart passing the request to the network when the file does not
\* resolve.
InterceptorStartFallsBack ==
    /\ route.stage = "intercepted"
    /\ IF StartsWith(route.url, VirtualPrefix)
         THEN LET uri == Substring(route.url, Len(VirtualPrefix))
                  file == Resolve(uri)
              IN IF file = <<>>
                   THEN route' = [route EXCEPT !.stage = "done", !.continued = @ + 1]
                   ELSE route' = [route EXCEPT !.stage = "reading", !.file = file]
         ELSE route' = [route EXCEPT !.stage = "done", !.continued = @ + 1]
    /\ UNCHANGED <<lifeVars, afterClose, pushVars, eventVars>>

\* Lines 59-62 and 73: the address is tested against the virtual prefix; under
\* it the file is resolved and its read is issued, otherwise the request is
\* continued.
InterceptorStart ==
    /\ route.stage = "intercepted"
    /\ IF StartsWith(route.url, VirtualPrefix)
         THEN LET uri == Substring(route.url, Len(VirtualPrefix))
                  file == Resolve(uri)
              IN IF file = <<>>
                   THEN route' = [route EXCEPT !.stage = "done", !.threw = TRUE]
                   ELSE route' = [route EXCEPT !.stage = "reading", !.file = file]
         ELSE route' = [route EXCEPT !.stage = "done", !.continued = @ + 1]
    /\ UNCHANGED <<lifeVars, afterClose, pushVars, eventVars>>

\* ReadDone without the return of line 71: the fulfilled request is continued
\* as well.
ReadDoneNoReturn ==
    /\ route.stage = "reading"
    /\ IF route.file \in Unreadable
         THEN route' = [route EXCEPT !.stage = "done", !.threw = TRUE]
         ELSE route' = [route EXCEPT !.stage = "done",
                  !.fulfilled = Append(@,
                      [status |-> 200,
                       contentType |-> MimeOf(ExtName(route.file)),
                       body |-> Base64(FileBytes(route.file)),
                       isBase64 |-> TRUE]),
                  !.continued = @ + 1]
    /\ UNCHANGED <<lifeVars, afterClose, pushVars, eventVars>>

\* Lines 62-71: the read settles; the request is fulfilled with the file.
ReadDone ==
    /\ route.stage = "reading"
    /\ IF route.file \in Unreadable
         THEN route' = [route EXCEPT !.stage = "done", !.threw = TRUE]
         ELSE route' = [route EXCEPT !.stage = "done",
                  !.fulfilled = Append(@,
                      [status |-> 200,
                       contentType |-> MimeOf(ExtName(route.file)),
                       body |-> Base64(FileBytes(route.file)),
                       isBase64 |-> TRUE])]
    /\ UNCHANGED <<lifeVars, afterClose, pushVars, eventVars>>

\* What the engine delivers to the page for a fulfilled request: the body, decoded
\* when it is marked as base64.
RECURSIVE Base64Decode(_)
Base64Decode(digits) ==
    IF Len(digits) < 4 THEN <<>>
    ELSE LET a == digits[1]
             b == digits[2]
             c == digits[3]
             d == digits[4]
             rest == Base64Decode(SubSeq(digits, 5, Len(digits)))
         IN IF c = 64 THEN <<a * 4 + b \div 16>>
            ELSE IF d = 64 THEN <<a * 4 + b \div 16, (b % 16) * 16 + c \div 4>>
            ELSE <<a * 4 + b \div 16, (b % 16) * 16 + c \div 4, (c % 4) * 64 + d>>
                    \o rest

Delivered(response) ==
    IF response.isBase64 THEN Base64Decode(response.body) ELSE response.body

\* What becomes of a request the interceptor has handled: the engine fails the
\* request whose handler threw.
RequestOutcome(r) ==
    IF r.threw THEN "failed"
    ELSE IF r.fulfilled # <<>> THEN "fulfilled"
    ELSE IF r.continued > 0 THEN "continued"
    ELSE "pending"

----
\* open() and _init().
Opening ==
    \/ OpenCall
    \/ LaunchDone
    \/ LaunchFail
    \/ LoadDefaultDone
    \/ LoadDefaultFail
    \/ AppIconDone
    \/ InterceptorDone
    \/ BindingDone
    \/ GotoDone
    \/ InitFail

\* The session teardown that context().close() starts.
Teardown ==
    \/ SessionClosePages
    \/ SessionCloseDone
    \/ SessionCloseFail

\* The controller alone: open(), the window closing, close(), bringToFront().
\* The controller keeps no state besides _page, and the push operations, the
\* binding and the interceptor meet the rest only through the page's life: each
\* of them is composed with the controller in a specification of its own.
Next ==
    \/ Opening
    \/ WindowClose
    \/ Close
    \/ Teardown
    \/ BringToFront
    \/ \E i \in DOMAIN fronts : \E ok \in BOOLEAN : FrontSettle(i, ok)

Spec == Init /\ [][Next]_vars

\* An awaited session teardown settles: it completes or it fails.
FairSpec == Spec /\ WF_vars(Teardown)

\* The controller with the push operations.  A push meets the controller's life
\* only through the page, which closes in WindowClose.
NextPush ==
    \/ Opening
    \/ WindowClose
    \/ \E op \in PushOps : \E arg \in PushArgs(op) : Push(op, arg)
    \/ EvalRun
    \/ EvalFail

SpecPush == Init /\ [][NextPush]_vars

\* The controller with the binding and the listeners of 'event'.
NextEvents ==
    \/ Opening
    \/ WindowClose
    \/ \E l \in Listeners : Subscribe(l)
    \/ \E data \in Payloads : Dispatch(data)

SpecEvents == Init /\ [][NextEvents]_vars

\* The controller with the request interceptor.
NextAssets ==
    \/ Opening
    \/ WindowClose
    \/ \E url \in RequestUrls : Intercept(url)
    \/ InterceptorStart
    \/ ReadDone

SpecAssets == Init /\ [][NextAssets]_vars

----
\* The claims.

Ready == pc = "returned"

\* C1: every push that has settled resolved, whatever its evaluation did and
\* whether the window was open or closed.
C1_PushesResolve ==
    \A i \in DOMAIN pushes : pushes[i].outcome = "resolved"

\* A push whose evaluation was rejected on a closed window has settled.
C1_Witness ==
    \E i \in DOMAIN pushes :
        /\ pushes[i].evaluation = "rejected"
        /\ pushes[i].page = "closed"
        /\ pushes[i].outcome = "resolved"

\* C2: 'close' is emitted at most once, however the window's close signal and
\* the close() calls interleave.
C2_CloseAtMostOnce == closeEmitted <= 1

\* close() was called on a ready controller, the window closed, close() was
\* called again.
C2_Witness ==
    /\ closeEmitted = 1
    /\ Len(closeCalls) >= 2
    /\ closeCalls[1].at = "ready"
    /\ closeCalls[2].at = "closed"

C4_NoCallAfterClose ==
    /\ sessions <= 1
    /\ \A who \in Issuers : afterClose[who] = 0

\* C4 as amended: at most one session; once 'close' has been emitted open() and
\* _init() issue nothing more, and the close listener issues exactly one session
\* close, right after the emission.  (What the host calls afterwards, close(),
\* bringToFront() and the pushes, is issued unguarded.)
C4_OnlyHandlerCloseAfterClose ==
    /\ sessions <= 1
    /\ afterClose["init"] = 0
    /\ afterClose["handler"] = closeEmitted

\* The close listener has issued its session close after emitting 'close'.
C4_Witness ==
    /\ closeEmitted = 1
    /\ afterClose["handler"] = 1
    /\ handlerClose # "none"

\* A step in which close() is called.
CloseStep == Len(closeCalls') = Len(closeCalls) + 1

InitOrder == <<"launch", "loadDefault", "installAppIcon", "setInterceptor",
               "exposeBinding", "onceClose", "goto">>

\* C6: the 'event' emissions are the window's dispatch() invocations, as many,
\* in the same order and with the same payloads, and every subscribed listener
\* has been called with every payload emitted since it subscribed, in order.
C6_EventsRelayInOrder ==
    /\ emitted = invoked
    /\ \A l \in Range(listeners) :
          received[l] = SubSeq(emitted, since[l] + 1, Len(emitted))

\* Two listeners that subscribed at different times, and three invocations with
\* distinct payloads among them.
C6_Witness ==
    /\ Len(invoked) = 3
    /\ invoked[1] # invoked[2]
    /\ Len(listeners) = 2
    /\ Len(received[listeners[1]]) = 2
    /\ Len(received[listeners[2]]) = 1

\* The extension of a file as the claim reads it: the file's ending that starts
\* with its only dot.
IsExtensionOf(ext, file) ==
    /\ Len(ext) >= 1
    /\ Len(ext) < Len(file)
    /\ SubSeq(file, Len(file) - Len(ext) + 1, Len(file)) = ext
    /\ ext[1] = "."
    /\ \A i \in 2..Len(ext) : ext[i] # "."

UnderVirtualPrefix(url) ==
    /\ Len(url) >= Len(VirtualPrefix)
    /\ \A i \in DOMAIN VirtualPrefix : url[i] = VirtualPrefix[i]

\* C7: a handled request for the virtual prefix followed by the name of a readable
\* bundle file was fulfilled once, with status 200, a body that delivers the
\* file's bytes and the type the table holds for the file's extension; a handled
\* request for an address outside the prefix was continued once and not
\* fulfilled.
C7_InterceptorServesBundle ==
    route.stage = "done" =>
        /\ \A f \in BundleFiles \ Unreadable :
              route.url = VirtualPrefix \o f =>
                 /\ Len(route.fulfilled) = 1
                 /\ route.continued = 0
                 /\ route.fulfilled[1].status = 200
                 /\ Delivered(route.fulfilled[1]) = FileBytes(f)
                 /\ \A e \in extensionToMime :
                       IsExtensionOf(e[1], f) => route.fulfilled[1].contentType = e[2]
        /\ ~UnderVirtualPrefix(route.url) =>
              /\ route.continued = 1
              /\ route.fulfilled = <<>>

\* The bundle script, whose name has two dots, was served as JavaScript.
C7_Witness ==
    /\ route.stage = "done"
    /\ route.url = VirtualPrefix \o AppBundleJs
    /\ Len(route.fulfilled) = 1
    /\ route.fulfilled[1].contentType = "application/javascript"

\* C8: open() issues launch, default-context load, interceptor install, binding
\* install and navigation in this order; the interceptor is installed at most
\* once per session, and is installed when the navigation is issued.
C8_InitOrder ==
    /\ Len(steps) <= Len(InitOrder)
    /\ \A i \in DOMAIN steps : steps[i] = InitOrder[i]
    /\ interceptors <= sessions
    /\ (\E i \in DOMAIN steps : steps[i] = "goto") => interceptors = 1

\* open() has returned the controller: every step was issued.
C8_Witness == Ready /\ steps = InitOrder /\ interceptors = 1

\* C9: when the launch or the default-context load fails, open() rejects, stays
\* rejected, and none of the calls of _init() is issued.
C9_BootstrapFailureAborts ==
    failedAt \in {"launch", "loadDefault"} =>
        /\ pc = "rejected"
        /\ \A i \in DOMAIN steps : steps[i] \notin InitCalls
        /\ interceptors = 0
        /\ ~closeListener

\* The default-context load failed on a launched session.
C9_Witness == failedAt = "loadDefault" /\ sessions = 1

\* C10 as stated: the lifecycle only moves uninitialized -> initializing -> ready
\* -> closed.
C10_StateMachine ==
    [][Lifecycle' # Lifecycle =>
          <<Lifecycle, Lifecycle'>> \in
              {<<"uninitialized", "initializing">>, <<"initializing", "ready">>,
               <<"ready", "closed">>}]_vars

\* C10 as amended: the lifecycle moves uninitialized -> initializing -> ready ->
\* closed, and also initializing -> closed: the close listener is registered
\* before the navigation is issued, so a window that closes while open() awaits
\* the navigation, or after the navigation has failed, emits 'close' on a
\* controller that was never ready.  Ready is entered only when the navigation
\* completes on an open window, closed only when the window closes with the
\* listener registered, and closed is terminal.
C10_StateMachineWithEarlyClose ==
    [][Lifecycle' # Lifecycle =>
          /\ <<Lifecycle, Lifecycle'>> \in
                {<<"uninitialized", "initializing">>, <<"initializing", "ready">>,
                 <<"ready", "closed">>, <<"initializing", "closed">>}
          /\ Lifecycle' = "ready" => pc = "goto" /\ page = "open"
          /\ Lifecycle' = "closed" =>
                page = "open" /\ page' = "closed" /\ closeListener]_vars

\* 'close' was emitted while open() still awaited the navigation.
C10_Witness == Lifecycle = "closed" /\ pc = "goto"

\* The window closed on a ready controller on which close() was never called.
ClosedExternally == Ready /\ page = "closed" /\ closeCalls = <<>>

FailedPushStep ==
    /\ Len(pushes') = Len(pushes) + 1
    /\ pushes'[Len(pushes')].evaluation = "rejected"

\* C12: a push whose evaluation fails resolves and changes nothing else: not the
\* window's displayed state, not the controller's lifecycle, and it is not issued
\* again; afterwards close(), a further push and (while the window is open) the
\* window closure can still happen.
C12_FailedPushHasNoEffect ==
    /\ [][FailedPushStep =>
             /\ pushes'[Len(pushes')].outcome = "resolved"
             /\ ui' = ui
             /\ lifeVars' = lifeVars
             /\ Lifecycle' = Lifecycle
             /\ evals' = Tail(evals)]_vars
    /\ []((\E i \in DOMAIN pushes : pushes[i].evaluation = "rejected") =>
             /\ ENABLED Close
             /\ page = "open" => ENABLED WindowClose
             /\ Len(evals) + Len(pushes) < MaxPushes => ENABLED Push("setFile", "x"))

\* A push issued after the window had closed failed, after one that succeeded.
C12_Witness ==
    /\ Len(pushes) = 2
    /\ pushes[1].evaluation = "fulfilled"
    /\ pushes[2].evaluation = "rejected" /\ pushes[2].page = "closed"
    /\ ui[WindowHook(pushes[1].op)] = <<pushes[1].arg>>

\* The pushes of hook h the window has run.
Observed(h) ==
    {i \in DOMAIN pushes :
        WindowHook(pushes[i].op) = h /\ pushes[i].evaluation = "fulfilled"}

\* C13: pushes issued without awaiting the earlier ones reach the window in the
\* order of their calls, and every hook of the window holds the value of the
\* last-issued push of its kind that the window has run.
C13_PushesInIssueOrder ==
    /\ \A i, j \in DOMAIN pushes : i < j => pushes[i].id < pushes[j].id
    /\ \A i, j \in DOMAIN evals : i < j => evals[i].id < evals[j].id
    /\ \A i \in DOMAIN pushes : \A j \in DOMAIN evals : pushes[i].id < evals[j].id
    /\ \A h \in Hooks :
          ui[h] = IF Observed(h) = {} THEN <<>>
                  ELSE LET last == CHOOSE i \in Observed(h) :
                                     \A j \in Observed(h) :
                                         pushes[j].id <= pushes[i].id
                       IN <<pushes[last].arg>>

\* Two pushes of one kind with different values were issued back to back, the
\* window ran both, and it shows the value of the second.
C13_Witness ==
    /\ Len(pushes) = 2
    /\ pushes[2].inflight = 1
    /\ pushes[1].op = pushes[2].op
    /\ pushes[1].arg # pushes[2].arg
    /\ pushes[1].evaluation = "fulfilled" /\ pushes[2].evaluation = "fulfilled"
    /\ ui[WindowHook(pushes[2].op)] = <<pushes[2].arg>>

\* What the settled pushes `done` must have written to the output stream: for
\* every setSources with a non-empty list, under the switch, the first source's
\* text between two delimiter lines.
RECURSIVE Written(_)
Written(done) ==
    IF done = <<>> THEN <<>>
    ELSE LET p == done[Len(done)]
         IN Written(SubSeq(done, 1, Len(done) - 1)) \o
            (IF p.op = "setSources" /\ cliExit /\ p.arg # <<>>
               THEN <<"\n-------------8<-------------\n", p.arg[1].text,
                      "\n-------------8<-------------\n">>
               ELSE <<>>)

\* C14: the output stream holds, for every settled setSources with a non-empty
\* list and the switch enabled, the first source's text between two delimiter
\* lines, whether its evaluation succeeded or failed, and nothing else.
C14_SetSourcesWrites ==
    /\ stdout = Written(pushes)
    /\ ~cliExit => stdout = <<>>

\* setSources wrote the first of two sources although its evaluation failed.
C14_Witness ==
    /\ cliExit
    /\ Len(pushes) = 1
    /\ pushes[1].op = "setSources" /\ Len(pushes[1].arg) = 2
    /\ pushes[1].evaluation = "rejected"
    /\ stdout = <<Delimiter, "s2", Delimiter>>

\* The path of an address under the virtual prefix, and the names require tries
\* for it.
PathOf(url) == SubSeq(url, Len(VirtualPrefix) + 1, Len(url))
RequireNames(url) ==
    {PathOf(url) \o e :
        e \in {<<>>, <<".", "j", "s">>, <<".", "j", "s", "o", "n">>,
                <<".", "n", "o", "d", "e">>}}

C16_CloseOnlyFromPageSignal ==
    /\ [](closeEmitted >= 1 => page = "closed")
    /\ [][closeEmitted' # closeEmitted =>
             /\ page = "open" /\ page' = "closed"
             /\ closeListener
             /\ closeEmitted' = closeEmitted + 1]_vars
    /\ [][CloseStep => closeEmitted' = closeEmitted]_vars
    /\ []((page = "open" /\ \E i \in DOMAIN closeCalls :
                                 closeCalls[i].status = "rejected") =>
             closeEmitted = 0)

\* close() was called on a ready controller, its teardown failed, and the page
\* is open: no 'close' was emitted.
C16_Witness ==
    /\ closeCalls # <<>>
    /\ closeCalls[1].at = "ready"
    /\ closeCalls[1].status = "rejected"
    /\ page = "open"
    /\ closeEmitted = 0

\* The session teardown fails in this step.
TeardownFailStep == ctx = "closing" /\ ctx' = "open"

\* C17: bringToFront() and close() let the failure of the page's or session's
\* operation through: a bringToFront() that settles once the window has closed
\* rejects, and every close() waiting for a teardown that fails rejects; the
\* close listener catches the failure of its own teardown, which never rejects.
C17_FailuresPropagateExceptInHandler ==
    /\ [][\A i \in DOMAIN fronts :
              (fronts[i] = "pending" /\ fronts'[i] # "pending" /\ page # "open")
                  => fronts'[i] = "rejected"]_vars
    /\ [][TeardownFailStep =>
             /\ \A i \in DOMAIN closeCalls :
                   closeCalls[i].status = "pending" =>
                       closeCalls'[i].status = "rejected"
             /\ handlerClose = "pending" => handlerClose' = "caught"]_vars
    /\ [](handlerClose \in {"none", "pending", "resolved", "caught"})

\* One teardown failed under a close() and under the close listener: the call
\* rejected, the listener caught; bringToFront() on the closed window rejected.
C17_Witness ==
    /\ page = "closed"
    /\ fronts # <<>> /\ fronts[1] = "rejected"
    /\ closeCalls # <<>> /\ closeCalls[1].status = "rejected"
    /\ handlerClose = "caught"

\* A call of _init() fails in this step and open() rejects.
InitFailStep == pc \in InitCalls /\ pc' = "rejected"

\* C18: when a call of _init() fails, on a launched session, open() rejects for
\* good and no controller exists to be closed; the failure itself issues no
\* session teardown (the session is left as it was, and only the close listener,
\* answering a window closure, ever tears it down); a window closure before the
\* listener is registered emits no 'close'.
C18_InitFailureLeavesSession ==
    /\ [](failedAt \in InitCalls =>
             /\ pc = "rejected"
             /\ sessions = 1
             /\ closeCalls = <<>> /\ afterClose["closeCall"] = 0
             /\ handlerClose # "none" => closeEmitted = 1 /\ page = "closed"
             /\ closeEmitted = 0 => ctx = "open")
    /\ [][InitFailStep =>
             /\ ctx' = ctx
             /\ handlerClose' = handlerClose
             /\ closeEmitted' = closeEmitted
             /\ afterClose' = afterClose]_vars
    /\ [][(page = "open" /\ page' = "closed" /\ ~closeListener) =>
             closeEmitted' = closeEmitted /\ ctx' = ctx]_vars
    /\ []("onceClose" \notin Range(steps) => closeEmitted = 0)

\* The icon install failed and the window closed before the close listener was
\* registered: open() rejected, no 'close', and the session is still open.
C18_Witness ==
    /\ failedAt = "installAppIcon"
    /\ pc = "rejected"
    /\ page = "closed"
    /\ closeEmitted = 0
    /\ ctx = "open"

\* C19: for the request it handles the interceptor calls fulfill or continue at
\* most once in all; a request under the virtual prefix is never continued and
\* a request outside it is never fulfilled.
C19_FulfillOrContinueOnce ==
    /\ Len(route.fulfilled) + route.continued <= 1
    /\ UnderVirtualPrefix(route.url) => route.continued = 0
    /\ ~UnderVirtualPrefix(route.url) => route.fulfilled = <<>>
    /\ route.threw => route.fulfilled = <<>> /\ route.continued = 0

\* The page's document was fulfilled once and not continued.
C19_Witness ==
    /\ route.stage = "done"
    /\ route.url = VirtualPrefix \o IndexHtml
    /\ Len(route.fulfilled) = 1
    /\ route.continued = 0

====
